---- MODULE Spec2Model ----
(***************************************************************************)
(* Model of SerLCD0, the non-blocking OpenLCD driver: the circular command *)
(* queue, the dispatch state machine of update(), the protocol encoder of  *)
(* sendCommand() and the error/recovery controller of handleError().       *)
(*                                                                         *)
(* The C++ member functions are translated into operators on a record `s`  *)
(* holding the object's fields (lower-case names, as in the source); each  *)
(* public call is one atomic step (capitalised names) that applies the     *)
(* operator to the current fields and installs the result.  millis() is    *)
(* the variable `now`; every millis() read inside one call sees the same   *)
(* value.  The result of Wire.endTransmission() is the input busOk.        *)
(***************************************************************************)
EXTENDS Integers, Sequences, FiniteSets, TLC

(* ------------------------------------------------------------------ *)
(* Program constants                                                   *)
(* ------------------------------------------------------------------ *)
QUEUE_SIZE == 32
SPECIAL_COMMAND == 254
SETTING_COMMAND == 124
CLEAR_COMMAND == 1
HOME_COMMAND == 2
RGB_COMMAND == 43
\* uint8_t arithmetic is modulo 2^8
ByteMod == 256

(* ------------------------------------------------------------------ *)
(* Bounds of the model                                                 *)
(* ------------------------------------------------------------------ *)
\* Width of the millisecond clock in the model.  The driver's clock is an
\* unsigned long (32 bits); TLC's integers cannot hold 2^32, so the clock is
\* modelled with the same modular arithmetic at a narrower width, and the
\* time that passes in one behaviour stays below one full turn of it.
ClockBits == 4
\* API enqueue calls in one behaviour of Spec
MaxEnq == 2
\* milliseconds that pass in one behaviour
MaxElapsed == 7

\* enqueue calls beyond QUEUE_SIZE in one behaviour of SpecFill and SpecThr
ExtraEnq == 2
\* milliseconds that pass in one behaviour of SpecFill
FillElapsed == 3
\* API enqueue calls in one behaviour of SpecEnc
EncEnq == 1
\* error count at which the caller of SpecLive stops enqueueing
LiveErrors == 2
\* successful sends between two queue resets in one behaviour of SpecLive
LiveSends == 1
\* API enqueue calls in one behaviour of SpecWrap
WrapEnq == 1
\* API enqueue calls in one behaviour of SpecCnt
CntEnq == 1

ClockMod == 2 ^ ClockBits

\* The values of a uint8_t
Byte == 0..(ByteMod - 1)

State == {"READY", "PROCESSING", "AWAITING_RESPONSE", "ERROR"}

\* elapsed time as the code computes it: unsigned subtraction
Diff(t, last) == (t - last + ClockMod) % ClockMod

(* ------------------------------------------------------------------ *)
(* LCDCommand                                                          *)
(* ------------------------------------------------------------------ *)
\* A slot of _cmdQueue that was never written.  (In C++ its content is
\* indeterminate; the code reads only slots between head and tail.)
NoCommand == [type |-> "NONE", data |-> <<>>]

\* data holds the dataLen valid bytes of cmd.data
LCDCommand(type, data) == [type |-> type, data |-> data]

VARIABLES
    \* fields of the SerLCD0 object
    _state, _queueHead, _queueTail, _cmdQueue,
    _lastActionTime, _errorCount, _needsFullRefresh,
    \* configuration
    _cmdTime, _errorResetTime, _SerLCD0_ErrorThreshold,
    \* environment: the millisecond clock
    now,
    \* history: commands accepted by queueCommand / sent successfully since
    \* the last queue reset
    acceptedLog, sentLog,
    \* history: time of the last successful send since the last
    \* reinitialize() (NoTime if none), and whether a failure re-stamped
    \* _lastActionTime since that send
    sendTime, restamped,
    \* history: accepted enqueues since the queue was empty with no dequeue
    \* in between (-1 once a dequeue left the queue non-empty)
    streak,
    \* history: commands accepted while the state was ERROR, since the state
    \* last became ERROR
    errWindow,
    \* observation of the last call: its name, the state at entry, its
    \* return value and the bus transaction it performed (<<>> if none)
    call, preState, ret, tx,
    \* budgets that keep a behaviour finite
    enqLeft, timeLeft

objVars == <<_state, _queueHead, _queueTail, _cmdQueue,
             _lastActionTime, _errorCount, _needsFullRefresh>>
cfgVars == <<_cmdTime, _errorResetTime, _SerLCD0_ErrorThreshold>>
histVars == <<acceptedLog, sentLog, sendTime, restamped, streak, errWindow>>
obsVars == <<call, preState, ret, tx>>
vars == <<objVars, cfgVars, now, histVars, obsVars, enqLeft, timeLeft>>

NoTime == -1

\* The object's fields (and the history carried along with them) as a record
Obj ==
    [ state |-> _state, queueHead |-> _queueHead, queueTail |-> _queueTail,
      cmdQueue |-> _cmdQueue, lastActionTime |-> _lastActionTime,
      errorCount |-> _errorCount, needsFullRefresh |-> _needsFullRefresh,
      acceptedLog |-> acceptedLog, sentLog |-> sentLog,
      sendTime |-> sendTime, restamped |-> restamped, streak |-> streak,
      errWindow |-> errWindow, tx |-> <<>> ]

(* ------------------------------------------------------------------ *)
(* Member functions                                                    *)
(* ------------------------------------------------------------------ *)
resetQueue(s) ==
    [s EXCEPT !.queueHead = 0, !.queueTail = 0,
              !.acceptedLog = <<>>, !.sentLog = <<>>, !.streak = 0]

\* Mutant of getQueueCount: the wrapped case is not handled.
getQueueCount_NoWrap(s) ==
    (s.queueTail - s.queueHead + ByteMod) % ByteMod

getQueueCount(s) ==
    IF s.queueTail >= s.queueHead
    THEN s.queueTail - s.queueHead
    ELSE QUEUE_SIZE - (s.queueHead - s.queueTail)

\* The commands between head and tail, oldest first
QueueSeq(s) ==
    [i \in 1..getQueueCount(s) |-> s.cmdQueue[(s.queueHead + i - 1) % QUEUE_SIZE]]

\* Mutant of handleError: the counter is wider than eight bits and does
\* not wrap.
handleError_WideCounter(s, t) ==
    LET s1 == [s EXCEPT !.errorCount = s.errorCount + 1]
        s2 == IF s1.errorCount > _SerLCD0_ErrorThreshold
              THEN resetQueue([s1 EXCEPT !.state = "ERROR",
                                         !.needsFullRefresh = TRUE,
                                         !.errWindow = IF s.state = "ERROR"
                                                       THEN @ ELSE <<>>])
              ELSE s1
    IN  [s2 EXCEPT !.lastActionTime = t, !.restamped = TRUE]

\* Mutant of handleError: an escalation does not set the refresh flag.
handleError_NoRefresh(s, t) ==
    LET s1 == [s EXCEPT !.errorCount = (s.errorCount + 1) % ByteMod]
        s2 == IF s1.errorCount > _SerLCD0_ErrorThreshold
              THEN resetQueue([s1 EXCEPT !.state = "ERROR",
                                         !.errWindow = IF s.state = "ERROR"
                                                       THEN @ ELSE <<>>])
              ELSE s1
    IN  [s2 EXCEPT !.lastActionTime = t, !.restamped = TRUE]

\* Mutant of handleError: the queue is reset on every failure.
handleError_AlwaysReset(s, t) ==
    LET s1 == [s EXCEPT !.errorCount = (s.errorCount + 1) % ByteMod]
        s2 == IF s1.errorCount > _SerLCD0_ErrorThreshold
              THEN resetQueue([s1 EXCEPT !.state = "ERROR",
                                         !.needsFullRefresh = TRUE,
                                         !.errWindow = IF s.state = "ERROR"
                                                       THEN @ ELSE <<>>])
              ELSE resetQueue(s1)
    IN  [s2 EXCEPT !.lastActionTime = t, !.restamped = TRUE]

\* Mutant of handleError: escalation when the counter reaches the threshold
\* (>= instead of >).
handleError_AtThreshold(s, t) ==
    LET s1 == [s EXCEPT !.errorCount = (s.errorCount + 1) % ByteMod]
        s2 == IF s1.errorCount >= _SerLCD0_ErrorThreshold
              THEN resetQueue([s1 EXCEPT !.state = "ERROR",
                                         !.needsFullRefresh = TRUE,
                                         !.errWindow = IF s.state = "ERROR"
                                                       THEN @ ELSE <<>>])
              ELSE s1
    IN  [s2 EXCEPT !.lastActionTime = t, !.restamped = TRUE]

handleError(s, t) ==
    LET s1 == [s EXCEPT !.errorCount = (s.errorCount + 1) % ByteMod]
        s2 == IF s1.errorCount > _SerLCD0_ErrorThreshold
              THEN resetQueue([s1 EXCEPT !.state = "ERROR",
                                         !.needsFullRefresh = TRUE,
                                         !.errWindow = IF s.state = "ERROR"
                                                       THEN @ ELSE <<>>])
              ELSE s1
    IN  [s2 EXCEPT !.lastActionTime = t, !.restamped = TRUE]

\* Mutant of queueCommand: the full test compares tail, not nextTail, with
\* head.
queueCommand_FullTestOnTail(s, cmd, t) ==
    LET nextTail == (s.queueTail + 1) % QUEUE_SIZE
    IN  IF s.queueTail = s.queueHead
        THEN [s |-> handleError(s, t), ret |-> FALSE]
        ELSE [s |-> [s EXCEPT !.cmdQueue[s.queueTail] = cmd,
                              !.queueTail = nextTail,
                              !.acceptedLog = Append(@, cmd),
                              !.streak = IF @ >= 0 THEN @ + 1 ELSE @,
                              !.errWindow = IF s.state = "ERROR"
                                            THEN Append(@, cmd) ELSE @],
              ret |-> TRUE]

queueCommand(s, cmd, t) ==
    LET nextTail == (s.queueTail + 1) % QUEUE_SIZE
    IN  IF nextTail = s.queueHead
        THEN [s |-> handleError(s, t), ret |-> FALSE]
        ELSE [s |-> [s EXCEPT !.cmdQueue[s.queueTail] = cmd,
                              !.queueTail = nextTail,
                              !.acceptedLog = Append(@, cmd),
                              !.streak = IF @ >= 0 THEN @ + 1 ELSE @,
                              !.errWindow = IF s.state = "ERROR"
                                            THEN Append(@, cmd) ELSE @],
              ret |-> TRUE]

\* Mutant of sendCommand: a setting command is sent behind the special
\* prefix.
sendCommand_SettingAsSpecial(cmd, busOk) ==
    CASE cmd.type = "WRITE_CHAR" ->
            [bytes |-> IF cmd.data[1] = SPECIAL_COMMAND \/ cmd.data[1] = SETTING_COMMAND
                       THEN <<cmd.data[1], cmd.data[1]>>
                       ELSE <<cmd.data[1]>>,
             ended |-> TRUE, ok |-> busOk]
      [] cmd.type = "SPECIAL_CMD" ->
            [bytes |-> <<SPECIAL_COMMAND, cmd.data[1]>>, ended |-> TRUE, ok |-> busOk]
      [] cmd.type = "SETTING_CMD" ->
            [bytes |-> <<SPECIAL_COMMAND, cmd.data[1]>>, ended |-> TRUE, ok |-> busOk]
      [] cmd.type = "RGB_CMD" ->
            [bytes |-> <<SETTING_COMMAND, RGB_COMMAND,
                         cmd.data[1], cmd.data[2], cmd.data[3]>>,
             ended |-> TRUE, ok |-> busOk]
      [] OTHER ->
            [bytes |-> <<>>, ended |-> FALSE, ok |-> FALSE]

\* Mutant of sendCommand: the backlight payload is written blue first.
sendCommand_RgbSwapped(cmd, busOk) ==
    CASE cmd.type = "WRITE_CHAR" ->
            [bytes |-> IF cmd.data[1] = SPECIAL_COMMAND \/ cmd.data[1] = SETTING_COMMAND
                       THEN <<cmd.data[1], cmd.data[1]>>
                       ELSE <<cmd.data[1]>>,
             ended |-> TRUE, ok |-> busOk]
      [] cmd.type = "SPECIAL_CMD" ->
            [bytes |-> <<SPECIAL_COMMAND, cmd.data[1]>>, ended |-> TRUE, ok |-> busOk]
      [] cmd.type = "SETTING_CMD" ->
            [bytes |-> <<SETTING_COMMAND, cmd.data[1]>>, ended |-> TRUE, ok |-> busOk]
      [] cmd.type = "RGB_CMD" ->
            [bytes |-> <<SETTING_COMMAND, RGB_COMMAND,
                         cmd.data[3], cmd.data[2], cmd.data[1]>>,
             ended |-> TRUE, ok |-> busOk]
      [] OTHER ->
            [bytes |-> <<>>, ended |-> FALSE, ok |-> FALSE]

\* Mutant of sendCommand: a character is never escaped.
sendCommand_NoEscape(cmd, busOk) ==
    CASE cmd.type = "WRITE_CHAR" ->
            [bytes |-> <<cmd.data[1]>>, ended |-> TRUE, ok |-> busOk]
      [] cmd.type = "SPECIAL_CMD" ->
            [bytes |-> <<SPECIAL_COMMAND, cmd.data[1]>>, ended |-> TRUE, ok |-> busOk]
      [] cmd.type = "SETTING_CMD" ->
            [bytes |-> <<SETTING_COMMAND, cmd.data[1]>>, ended |-> TRUE, ok |-> busOk]
      [] cmd.type = "RGB_CMD" ->
            [bytes |-> <<SETTING_COMMAND, RGB_COMMAND,
                         cmd.data[1], cmd.data[2], cmd.data[3]>>,
             ended |-> TRUE, ok |-> busOk]
      [] OTHER ->
            [bytes |-> <<>>, ended |-> FALSE, ok |-> FALSE]

\* The bytes written between beginTransmission and endTransmission, and the
\* result.  ended = FALSE: the default branch returns before endTransmission.
sendCommand(cmd, busOk) ==
    CASE cmd.type = "WRITE_CHAR" ->
            [bytes |-> IF cmd.data[1] = SPECIAL_COMMAND \/ cmd.data[1] = SETTING_COMMAND
                       THEN <<cmd.data[1], cmd.data[1]>>
                       ELSE <<cmd.data[1]>>,
             ended |-> TRUE, ok |-> busOk]
      [] cmd.type = "SPECIAL_CMD" ->
            [bytes |-> <<SPECIAL_COMMAND, cmd.data[1]>>, ended |-> TRUE, ok |-> busOk]
      [] cmd.type = "SETTING_CMD" ->
            [bytes |-> <<SETTING_COMMAND, cmd.data[1]>>, ended |-> TRUE, ok |-> busOk]
      [] cmd.type = "RGB_CMD" ->
            [bytes |-> <<SETTING_COMMAND, RGB_COMMAND,
                         cmd.data[1], cmd.data[2], cmd.data[3]>>,
             ended |-> TRUE, ok |-> busOk]
      [] OTHER ->
            [bytes |-> <<>>, ended |-> FALSE, ok |-> FALSE]

\* Mutant of processNextCommand: a successful send clears the error
\* counter.
processNextCommand_ClearsErrors(s, t, busOk) ==
    IF s.state # "READY" \/ s.queueHead = s.queueTail
    THEN [s |-> s, ret |-> FALSE]
    ELSE LET cmd == s.cmdQueue[s.queueHead]
             r == sendCommand(cmd, busOk)
             s1 == [s EXCEPT !.tx = <<[cmd |-> cmd, bytes |-> r.bytes, ok |-> r.ok]>>]
         IN  IF r.ok
             THEN [s |-> [s1 EXCEPT !.queueHead = (s.queueHead + 1) % QUEUE_SIZE,
                                    !.state = "PROCESSING",
                                    !.lastActionTime = t,
                                    !.errorCount = 0,
                                    !.sentLog = Append(@, cmd),
                                    !.sendTime = t,
                                    !.restamped = FALSE,
                                    !.streak = IF (s.queueHead + 1) % QUEUE_SIZE = s.queueTail
                                               THEN 0 ELSE -1],
                   ret |-> TRUE]
             ELSE [s |-> handleError(s1, t), ret |-> FALSE]

\* Mutant of processNextCommand: a successful send does not advance head.
processNextCommand_NoAdvance(s, t, busOk) ==
    IF s.state # "READY" \/ s.queueHead = s.queueTail
    THEN [s |-> s, ret |-> FALSE]
    ELSE LET cmd == s.cmdQueue[s.queueHead]
             r == sendCommand(cmd, busOk)
             s1 == [s EXCEPT !.tx = <<[cmd |-> cmd, bytes |-> r.bytes, ok |-> r.ok]>>]
         IN  IF r.ok
             THEN [s |-> [s1 EXCEPT !.state = "PROCESSING",
                                    !.lastActionTime = t,
                                    !.sentLog = Append(@, cmd),
                                    !.sendTime = t,
                                    !.restamped = FALSE,
                                    !.streak = -1],
                   ret |-> TRUE]
             ELSE [s |-> handleError(s1, t), ret |-> FALSE]

\* Mutant of processNextCommand: head advances whether or not the send
\* succeeded.
processNextCommand_DropOnFail(s, t, busOk) ==
    IF s.state # "READY" \/ s.queueHead = s.queueTail
    THEN [s |-> s, ret |-> FALSE]
    ELSE LET cmd == s.cmdQueue[s.queueHead]
             r == sendCommand(cmd, busOk)
             s1 == [s EXCEPT !.tx = <<[cmd |-> cmd, bytes |-> r.bytes, ok |-> r.ok]>>,
                             !.queueHead = (s.queueHead + 1) % QUEUE_SIZE,
                             !.streak = IF (s.queueHead + 1) % QUEUE_SIZE = s.queueTail
                                        THEN 0 ELSE -1]
         IN  IF r.ok
             THEN [s |-> [s1 EXCEPT !.state = "PROCESSING",
                                    !.lastActionTime = t,
                                    !.sentLog = Append(@, cmd),
                                    !.sendTime = t,
                                    !.restamped = FALSE],
                   ret |-> TRUE]
             ELSE [s |-> handleError(s1, t), ret |-> FALSE]

processNextCommand(s, t, busOk) ==
    IF s.state # "READY" \/ s.queueHead = s.queueTail
    THEN [s |-> s, ret |-> FALSE]
    ELSE LET cmd == s.cmdQueue[s.queueHead]
             r == sendCommand(cmd, busOk)
             s1 == [s EXCEPT !.tx = <<[cmd |-> cmd, bytes |-> r.bytes, ok |-> r.ok]>>]
         IN  IF r.ok
             THEN [s |-> [s1 EXCEPT !.queueHead = (s.queueHead + 1) % QUEUE_SIZE,
                                    !.state = "PROCESSING",
                                    !.lastActionTime = t,
                                    !.sentLog = Append(@, cmd),
                                    !.sendTime = t,
                                    !.restamped = FALSE,
                                    !.streak = IF (s.queueHead + 1) % QUEUE_SIZE = s.queueTail
                                               THEN 0 ELSE -1],
                   ret |-> TRUE]
             ELSE [s |-> handleError(s1, t), ret |-> FALSE]

write(s, b, t) == queueCommand(s, LCDCommand("WRITE_CHAR", <<b>>), t)

ClearCmd == LCDCommand("SPECIAL_CMD", <<CLEAR_COMMAND>>)
clear(s, t) == queueCommand(s, ClearCmd, t)

HomeCmd == LCDCommand("SPECIAL_CMD", <<HOME_COMMAND>>)
home(s, t) == queueCommand(s, HomeCmd, t)

row_offsets == <<0, 64, 20, 84>>
Min(a, b) == IF a < b THEN a ELSE b
\* 0x80 | v, truncated to uint8_t
Or80(v) == IF (v % ByteMod) >= 128 THEN v % ByteMod ELSE (v % ByteMod) + 128
setCursor(s, col, row, t) ==
    queueCommand(s, LCDCommand("SPECIAL_CMD",
                               <<Or80(col + row_offsets[Min(row, 3) + 1])>>), t)

setBacklight(s, r, g, b, t) == queueCommand(s, LCDCommand("RGB_CMD", <<r, g, b>>), t)

\* Mutant of reinitialize: the state is left READY.
reinitialize_StateReady(s, t) ==
    LET s1 == resetQueue(s)
        s2 == [s1 EXCEPT !.state = "READY", !.lastActionTime = t,
                         !.errorCount = 0, !.needsFullRefresh = TRUE,
                         !.sendTime = NoTime, !.restamped = FALSE]
        s3 == clear(s2, t).s
    IN  setBacklight(s3, 255, 255, 255, t).s

\* Mutant of reinitialize: the queue is not reset first.
reinitialize_KeepQueue(s, t) ==
    LET s2 == [s EXCEPT !.state = "PROCESSING", !.lastActionTime = t,
                        !.errorCount = 0, !.needsFullRefresh = TRUE,
                        !.sendTime = NoTime, !.restamped = FALSE]
        s3 == clear(s2, t).s
    IN  setBacklight(s3, 255, 255, 255, t).s

\* Mutant of reinitialize: the clear command is not queued.
reinitialize_NoClear(s, t) ==
    LET s1 == resetQueue(s)
        s2 == [s1 EXCEPT !.state = "PROCESSING", !.lastActionTime = t,
                         !.errorCount = 0, !.needsFullRefresh = TRUE,
                         !.sendTime = NoTime, !.restamped = FALSE]
    IN  setBacklight(s2, 255, 255, 255, t).s

reinitialize(s, t) ==
    LET s1 == resetQueue(s)
        s2 == [s1 EXCEPT !.state = "PROCESSING", !.lastActionTime = t,
                         !.errorCount = 0, !.needsFullRefresh = TRUE,
                         !.sendTime = NoTime, !.restamped = FALSE]
        s3 == clear(s2, t).s
    IN  setBacklight(s3, 255, 255, 255, t).s

\* Mutant of update: the recovery tick reports ready.
update_RecoveryReportsReady(s, t, busOk) ==
    CASE s.state = "PROCESSING" ->
            LET s1 == IF Diff(t, s.lastActionTime) >= _cmdTime
                      THEN [s EXCEPT !.state = "READY"]
                      ELSE s
            IN  [s |-> s1, ret |-> (s1.state = "READY")]
      [] s.state = "ERROR" ->
            IF Diff(t, s.lastActionTime) >= _errorResetTime
            THEN [s |-> reinitialize([s EXCEPT !.state = "READY", !.errorCount = 0], t),
                  ret |-> TRUE]
            ELSE [s |-> s, ret |-> FALSE]
      [] s.state = "READY" ->
            IF s.queueHead # s.queueTail
            THEN processNextCommand(s, t, busOk)
            ELSE [s |-> s, ret |-> (s.state = "READY")]
      [] OTHER -> [s |-> s, ret |-> (s.state = "READY")]

\* Mutant of update: the tick that opens the settle gate goes on to
\* dispatch the next command.
update_DispatchOnGateOpen(s, t, busOk) ==
    CASE s.state = "PROCESSING" ->
            LET s1 == IF Diff(t, s.lastActionTime) >= _cmdTime
                      THEN [s EXCEPT !.state = "READY"]
                      ELSE s
            IN  IF s1.state = "READY" /\ s1.queueHead # s1.queueTail
                THEN processNextCommand(s1, t, busOk)
                ELSE [s |-> s1, ret |-> (s1.state = "READY")]
      [] s.state = "ERROR" ->
            IF Diff(t, s.lastActionTime) >= _errorResetTime
            THEN [s |-> reinitialize([s EXCEPT !.state = "READY", !.errorCount = 0], t),
                  ret |-> FALSE]
            ELSE [s |-> s, ret |-> FALSE]
      [] s.state = "READY" ->
            IF s.queueHead # s.queueTail
            THEN processNextCommand(s, t, busOk)
            ELSE [s |-> s, ret |-> (s.state = "READY")]
      [] OTHER -> [s |-> s, ret |-> (s.state = "READY")]

\* Mutant of update: both gates compare the clock with the time stamp plus
\* the delay, instead of the difference with the delay.
update_AbsoluteCompare(s, t, busOk) ==
    CASE s.state = "PROCESSING" ->
            LET s1 == IF t >= s.lastActionTime + _cmdTime
                      THEN [s EXCEPT !.state = "READY"]
                      ELSE s
            IN  [s |-> s1, ret |-> (s1.state = "READY")]
      [] s.state = "ERROR" ->
            IF t >= s.lastActionTime + _errorResetTime
            THEN [s |-> reinitialize([s EXCEPT !.state = "READY", !.errorCount = 0], t),
                  ret |-> FALSE]
            ELSE [s |-> s, ret |-> FALSE]
      [] s.state = "READY" ->
            IF s.queueHead # s.queueTail
            THEN processNextCommand(s, t, busOk)
            ELSE [s |-> s, ret |-> (s.state = "READY")]
      [] OTHER -> [s |-> s, ret |-> (s.state = "READY")]

\* Mutant of update: the ERROR branch never starts the recovery.
update_NoRecovery(s, t, busOk) ==
    CASE s.state = "PROCESSING" ->
            LET s1 == IF Diff(t, s.lastActionTime) >= _cmdTime
                      THEN [s EXCEPT !.state = "READY"]
                      ELSE s
            IN  [s |-> s1, ret |-> (s1.state = "READY")]
      [] s.state = "ERROR" -> [s |-> s, ret |-> FALSE]
      [] s.state = "READY" ->
            IF s.queueHead # s.queueTail
            THEN processNextCommand(s, t, busOk)
            ELSE [s |-> s, ret |-> (s.state = "READY")]
      [] OTHER -> [s |-> s, ret |-> (s.state = "READY")]

\* Mutant of update: the READY branch returns the readiness after the
\* dispatch instead of the result of processNextCommand.
update_ReturnsReadiness(s, t, busOk) ==
    CASE s.state = "PROCESSING" ->
            LET s1 == IF Diff(t, s.lastActionTime) >= _cmdTime
                      THEN [s EXCEPT !.state = "READY"]
                      ELSE s
            IN  [s |-> s1, ret |-> (s1.state = "READY")]
      [] s.state = "ERROR" ->
            IF Diff(t, s.lastActionTime) >= _errorResetTime
            THEN [s |-> reinitialize([s EXCEPT !.state = "READY", !.errorCount = 0], t),
                  ret |-> FALSE]
            ELSE [s |-> s, ret |-> FALSE]
      [] s.state = "READY" ->
            LET s1 == IF s.queueHead # s.queueTail
                      THEN processNextCommand(s, t, busOk).s
                      ELSE s
            IN  [s |-> s1, ret |-> (s1.state = "READY")]
      [] OTHER -> [s |-> s, ret |-> (s.state = "READY")]

\* Mutant of update: the settle gate of PROCESSING opens one millisecond
\* late (> instead of >=).
update_GateStrict(s, t, busOk) ==
    CASE s.state = "PROCESSING" ->
            LET s1 == IF Diff(t, s.lastActionTime) > _cmdTime
                      THEN [s EXCEPT !.state = "READY"]
                      ELSE s
            IN  [s |-> s1, ret |-> (s1.state = "READY")]
      [] s.state = "ERROR" ->
            IF Diff(t, s.lastActionTime) >= _errorResetTime
            THEN [s |-> reinitialize([s EXCEPT !.state = "READY", !.errorCount = 0], t),
                  ret |-> FALSE]
            ELSE [s |-> s, ret |-> FALSE]
      [] s.state = "READY" ->
            IF s.queueHead # s.queueTail
            THEN processNextCommand(s, t, busOk)
            ELSE [s |-> s, ret |-> (s.state = "READY")]
      [] OTHER -> [s |-> s, ret |-> (s.state = "READY")]

update(s, t, busOk) ==
    CASE s.state = "PROCESSING" ->
            LET s1 == IF Diff(t, s.lastActionTime) >= _cmdTime
                      THEN [s EXCEPT !.state = "READY"]
                      ELSE s
            IN  [s |-> s1, ret |-> (s1.state = "READY")]
      [] s.state = "ERROR" ->
            IF Diff(t, s.lastActionTime) >= _errorResetTime
            THEN [s |-> reinitialize([s EXCEPT !.state = "READY", !.errorCount = 0], t),
                  ret |-> FALSE]
            ELSE [s |-> s, ret |-> FALSE]
      [] s.state = "READY" ->
            IF s.queueHead # s.queueTail
            THEN processNextCommand(s, t, busOk)
            ELSE [s |-> s, ret |-> (s.state = "READY")]
      [] OTHER -> [s |-> s, ret |-> (s.state = "READY")]

(* ------------------------------------------------------------------ *)
(* Steps: one public call each                                         *)
(* ------------------------------------------------------------------ *)
\* Install the fields of s, and record the call
Install(s, name, r) ==
    /\ _state' = s.state
    /\ _queueHead' = s.queueHead
    /\ _queueTail' = s.queueTail
    /\ _cmdQueue' = s.cmdQueue
    /\ _lastActionTime' = s.lastActionTime
    /\ _errorCount' = s.errorCount
    /\ _needsFullRefresh' = s.needsFullRefresh
    /\ acceptedLog' = s.acceptedLog
    /\ sentLog' = s.sentLog
    /\ sendTime' = s.sendTime
    /\ restamped' = s.restamped
    /\ streak' = s.streak
    /\ errWindow' = s.errWindow
    /\ tx' = s.tx
    /\ call' = name
    /\ preState' = _state
    /\ ret' = r
    /\ UNCHANGED <<cfgVars, now>>

\* An API enqueue call whose result is res
Enqueued(res, name) ==
    /\ enqLeft > 0
    /\ enqLeft' = enqLeft - 1
    /\ Install(res.s, name, res.ret)
    /\ UNCHANGED timeLeft

Write(b) == Enqueued(write(Obj, b, now), "write")

Clear == Enqueued(clear(Obj, now), "clear")

Home == Enqueued(home(Obj, now), "home")

SetCursor(col, row) == Enqueued(setCursor(Obj, col, row, now), "setCursor")

SetBacklight(r, g, b) == Enqueued(setBacklight(Obj, r, g, b, now), "setBacklight")

Update(busOk) ==
    LET res == update(Obj, now, busOk)
    IN  /\ Install(res.s, "update", res.ret)
        /\ UNCHANGED <<enqLeft, timeLeft>>

Reinitialize ==
    /\ Install(reinitialize(Obj, now), "reinitialize", FALSE)
    /\ UNCHANGED <<enqLeft, timeLeft>>

ClearRefreshFlag ==
    /\ _needsFullRefresh
    /\ _needsFullRefresh' = FALSE
    /\ call' = "clearRefreshFlag"
    /\ preState' = _state
    /\ ret' = FALSE
    /\ tx' = <<>>
    /\ UNCHANGED <<_state, _queueHead, _queueTail, _cmdQueue, _lastActionTime,
                   _errorCount, cfgVars, now, histVars, enqLeft, timeLeft>>

\* One millisecond passes
Tick ==
    /\ timeLeft > 0
    /\ timeLeft' = timeLeft - 1
    /\ now' = (now + 1) % ClockMod
    /\ UNCHANGED <<objVars, cfgVars, histVars, obsVars, enqLeft>>

\* sendCommand applied to one command, outside the dispatch: the object's
\* fields are not touched, the bytes and the result are observed
SendCommand(cmd, busOk) ==
    LET r == sendCommand(cmd, busOk)
    IN  /\ tx' = <<[cmd |-> cmd, bytes |-> r.bytes, ok |-> r.ok]>>
        /\ call' = "sendCommand"
        /\ preState' = _state
        /\ ret' = r.ok
        /\ UNCHANGED <<objVars, cfgVars, now, histVars, enqLeft, timeLeft>>

(* ------------------------------------------------------------------ *)
(* Specifications                                                      *)
(* ------------------------------------------------------------------ *)
\* The state after construction and configuration (setCmdTime,
\* setErrorResetTime, setSerLCD0_ErrorThreshold), at clock time start
InitWith(cmdTimes, resetTimes, thresholds, starts, enqBudget, timeBudget) ==
    /\ _state = "READY"
    /\ _queueHead = 0
    /\ _queueTail = 0
    /\ _cmdQueue = [i \in 0..(QUEUE_SIZE - 1) |-> NoCommand]
    /\ _errorCount = 0
    /\ _needsFullRefresh = TRUE
    /\ now \in starts
    \* _lastActionTime is not set by the constructor; it is first read in
    \* PROCESSING or ERROR, which are entered only after it was written
    /\ _lastActionTime = now
    /\ _cmdTime \in cmdTimes
    /\ _errorResetTime \in resetTimes
    /\ _SerLCD0_ErrorThreshold \in thresholds
    /\ acceptedLog = <<>>
    /\ sentLog = <<>>
    /\ sendTime = NoTime
    /\ restamped = FALSE
    /\ streak = 0
    /\ errWindow = <<>>
    /\ call = "constructor"
    /\ preState = "READY"
    /\ ret = FALSE
    /\ tx = <<>>
    /\ enqLeft = enqBudget
    /\ timeLeft = timeBudget

\* Spec: every operation, a small alphabet of commands, a clock that wraps
\* during the behaviour
Init == InitWith({2}, {3}, {1}, {ClockMod - 2}, MaxEnq, MaxElapsed)

Next ==
    \/ Write(65)
    \/ Clear
    \/ Home
    \/ SetCursor(19, 5)
    \/ SetBacklight(10, 20, 30)
    \/ \E busOk \in BOOLEAN : Update(busOk)
    \/ Reinitialize
    \/ Tick

Spec == Init /\ [][Next]_vars

\* SpecFill: one caller that writes the same character until the queue is
\* full and beyond, while update() runs and time passes
InitFill == InitWith({2}, {3}, {0, 1}, {ClockMod - 2}, QUEUE_SIZE + ExtraEnq, FillElapsed)

NextFill ==
    \/ Write(65)
    \/ \E busOk \in BOOLEAN : Update(busOk)
    \/ Tick

SpecFill == InitFill /\ [][NextFill]_vars

\* SpecThr: failures of both kinds under the thresholds 0, 1 and 255, with
\* no time passing
InitThr == InitWith({2}, {3}, {0, 1, 255}, {0}, QUEUE_SIZE + ExtraEnq, 0)

NextThr ==
    \/ Write(65)
    \/ \E busOk \in BOOLEAN : Update(busOk)
    \/ ClearRefreshFlag

SpecThr == InitThr /\ [][NextThr]_vars

\* SpecEnc: the encoder on every character value
InitEnc == InitWith({2}, {3}, {0, 1}, {0}, EncEnq, 0)

NextEnc ==
    \/ \E b \in Byte : Write(b)
    \/ \E busOk \in BOOLEAN : Update(busOk)

SpecEnc == InitEnc /\ [][NextEnc]_vars

\* SpecSend: the encoder as a function, on commands of every kind: every
\* character, every special and setting payload, backlight colours over a
\* few levels, and a command whose type is none of the four
RgbLevels == {0, 10, 124, 254, 255}

SendCommands ==
    {LCDCommand("WRITE_CHAR", <<v>>) : v \in Byte}
        \cup {LCDCommand("SPECIAL_CMD", <<p>>) : p \in Byte}
        \cup {LCDCommand("SETTING_CMD", <<p>>) : p \in Byte}
        \cup {LCDCommand("RGB_CMD", <<r, g, b>>) : r \in RgbLevels, g \in RgbLevels, b \in RgbLevels}
        \cup {NoCommand}

InitSend == InitWith({2}, {3}, {1}, {0}, 0, 0)

NextSend == \E cmd \in SendCommands, busOk \in BOOLEAN : SendCommand(cmd, busOk)

SpecSend == InitSend /\ [][NextSend]_vars

\* SpecWrap: the clock starts anywhere on its circle and runs for one turn
\* less one millisecond, so that every elapsed time below 2^ClockBits
\* occurs, with and without a wrap between the time stamp and the tick
WrapElapsed == ClockMod - 1

InitWrap == InitWith({2}, {3}, {0}, 0..(ClockMod - 1), WrapEnq, WrapElapsed)

NextWrap ==
    \/ Write(65)
    \/ \E busOk \in BOOLEAN : Update(busOk)
    \/ Tick

SpecWrap == InitWrap /\ [][NextWrap]_vars

\* SpecLive: the driver polled for ever.  update() is called at least once
\* in every millisecond (the clock advances only after an update()), the
\* caller writes QUEUE_SIZE characters in a row whenever getErrorCount() is
\* below LiveErrors, and the bus fails or succeeds.  Neither the clock nor the caller has a budget; the
\* successful sends between two queue resets are bounded so that the
\* histories stay finite.
RECURSIVE writeTimes(_, _, _, _, _)
\* write(b) called n times in a row; the result is true if every call was
\* accepted (all: every call so far was)
writeTimes(s, b, n, t, all) ==
    IF n = 0
    THEN [s |-> s, ret |-> all]
    ELSE LET r == write(s, b, t)
         IN  IF r.ret
             THEN writeTimes(r.s, b, n - 1, t, all)
             ELSE writeTimes(r.s, b, n - 1, t, FALSE)

WriteLive ==
    LET res == writeTimes(Obj, 65, QUEUE_SIZE, now, TRUE)
    IN  /\ _errorCount < LiveErrors
        /\ Install(res.s, "write", res.ret)
        /\ UNCHANGED <<enqLeft, timeLeft>>

UpdateLive ==
    \E busOk \in BOOLEAN :
        /\ busOk => Len(sentLog) < LiveSends
        /\ Update(busOk)

Elapse ==
    /\ call = "update"
    /\ now' = (now + 1) % ClockMod
    /\ call' = "millis"
    /\ UNCHANGED <<objVars, cfgVars, histVars, preState, ret, tx, enqLeft, timeLeft>>

InitLive == InitWith({2}, {3}, {1}, {0}, 0, 0)

NextLive ==
    \/ WriteLive
    \/ UpdateLive
    \/ Elapse

SpecLive ==
    /\ InitLive
    /\ [][NextLive]_vars
    /\ WF_vars(UpdateLive)
    /\ SF_vars(Elapse)

\* SpecFlag: the refresh flag under every operation that touches it: the
\* caller, the polling and the clock of SpecLive (no fairness is needed),
\* with reinitialize() and clearRefreshFlag() at any time
InitFlag == InitWith({2}, {3}, {1}, {0}, 0, 0)

NextFlag ==
    \/ WriteLive
    \/ UpdateLive
    \/ Elapse
    \/ Reinitialize
    \/ ClearRefreshFlag

SpecFlag == InitFlag /\ [][NextFlag]_vars

\* SpecCnt: bus failures without end under every threshold a uint8_t can
\* hold, with no time passing
InitCnt == InitWith({2}, {3}, Byte, {0}, CntEnq, 0)

NextCnt ==
    \/ Write(65)
    \/ \E busOk \in BOOLEAN : Update(busOk)

SpecCnt == InitCnt /\ [][NextCnt]_vars

(* ------------------------------------------------------------------ *)
(* Properties                                                          *)
(* ------------------------------------------------------------------ *)
\* The queue's content now, oldest first
QueueNow == QueueSeq(Obj)

UpdateStep == \E busOk \in BOOLEAN : Update(busOk)

\* An update() in READY whose bus transaction failed without escalation
AbsorbedBusFailure ==
    /\ UpdateStep
    /\ _state = "READY"
    /\ tx' # <<>>
    /\ ~tx'[1].ok
    /\ _state' # "ERROR"

\* An update() in ERROR at which the error-recovery settle time has elapsed
RecoveryTick ==
    /\ UpdateStep
    /\ _state = "ERROR"
    /\ Diff(now, _lastActionTime) >= _errorResetTime

BacklightWhite == LCDCommand("RGB_CMD", <<255, 255, 255>>)
ReinitSequence == <<ClearCmd, BacklightWhite>>

\* C1 (FIFO dispatch): between queue resets (escalation, reinitialize) the
\* commands sent successfully are, in order and one for one, the first
\* commands accepted by queueCommand, and the commands still queued are the
\* remaining accepted ones in their order of acceptance.
C1_FifoDispatch ==
    /\ Len(sentLog) <= Len(acceptedLog)
    /\ sentLog = SubSeq(acceptedLog, 1, Len(sentLog))
    /\ QueueNow = SubSeq(acceptedLog, Len(sentLog) + 1, Len(acceptedLog))

\* C1 witness: two different commands were sent in their order of
\* acceptance, with an absorbed bus failure in between resets.
C1_Witness ==
    /\ Len(sentLog) = 2
    /\ sentLog[1] # sentLog[2]
    /\ _errorCount = 1
    /\ _state = "PROCESSING"

\* C4 as stated (drop on absorbed failure): a bus failure that does not
\* escalate removes the failed head command from the queue, so that the
\* next dispatch sends the command enqueued after it.
C4_DroppedOnAbsorbedFailure ==
    [][AbsorbedBusFailure => QueueNow' = Tail(QueueNow)]_vars

\* C4 amended (retry on absorbed failure): a bus failure that does not
\* escalate leaves head, tail and the queued commands unchanged and the
\* state READY, and an update() that follows it immediately transmits the
\* same command again.
C4_RetriedOnAbsorbedFailure ==
    [][ /\ AbsorbedBusFailure =>
            /\ QueueNow' = QueueNow
            /\ _queueHead' = _queueHead
            /\ _queueTail' = _queueTail
            /\ _state' = "READY"
            /\ ~ret'
        /\ ( /\ UpdateStep
             /\ call = "update" /\ tx # <<>> /\ ~tx[1].ok /\ _state = "READY" ) =>
            /\ tx' # <<>>
            /\ tx'[1].cmd = tx[1].cmd
      ]_vars

\* C4 witness: after a failed transaction of a command, absorbed, the next
\* update() sent that same command successfully.
C4_Witness ==
    /\ call = "update"
    /\ tx # <<>>
    /\ tx[1].ok
    /\ _errorCount = 1
    /\ _SerLCD0_ErrorThreshold = 1
    /\ Len(sentLog) = 1
    /\ Len(acceptedLog) = 2

\* C5 (recovery replay): the update() in ERROR at which the recovery time
\* has elapsed leaves exactly clear and backlight(255,255,255) in the queue,
\* in this order, and the error counter at 0.
C5_RecoveryReplay ==
    [][RecoveryTick => /\ QueueNow' = ReinitSequence
                       /\ _errorCount' = 0]_vars

\* C5 witness: a recovery tick has just run.
C5_Witness ==
    /\ call = "update"
    /\ preState = "ERROR"
    /\ _state = "PROCESSING"
    /\ QueueNow = ReinitSequence
    /\ _errorCount = 0

\* C6 as stated (commands of the Error window survive): after the recovery
\* tick the queue holds the re-initialization sequence followed by the
\* commands accepted while the state was ERROR.
C6_ErrorWindowSurvives ==
    [][RecoveryTick => QueueNow' = ReinitSequence \o errWindow]_vars

\* C6 amended (commands of the Error window are discarded): the recovery
\* tick resets the queue before it enqueues the re-initialization sequence,
\* so after it the queue holds that sequence alone, at slots 0 and 1, and
\* the commands accepted while the state was ERROR are neither queued nor
\* among the commands sent.
C6_ErrorWindowDiscarded ==
    [][(RecoveryTick /\ errWindow # <<>>) =>
            /\ Len(QueueNow') = 2
            /\ _queueHead' = 0
            /\ _queueTail' = 2
            /\ acceptedLog' = ReinitSequence
            /\ sentLog' = <<>>
            /\ tx' = <<>>]_vars

\* C6 witness: a recovery tick has run after a command was accepted in
\* ERROR.
C6_Witness ==
    /\ call = "update"
    /\ preState = "ERROR"
    /\ _state = "PROCESSING"
    /\ errWindow # <<>>

\* C8 as stated (the return value is readiness only): after every update()
\* the returned value equals (state = READY).
C8_ReturnIsReadiness ==
    call = "update" => (ret = (_state = "READY"))

\* C8 amended: an update() that performs no bus transaction returns
\* (state = READY) as the state is when it returns; an update() that
\* performs one returns whether that transaction succeeded.
C8_ReturnIsReadinessOrSendResult ==
    call = "update" =>
        IF tx = <<>> THEN ret = (_state = "READY") ELSE ret = tx[1].ok

\* C8 witness: an update() sent a command and returned true while the state
\* it left is PROCESSING.
C8_Witness ==
    /\ call = "update"
    /\ tx # <<>>
    /\ ret
    /\ _state = "PROCESSING"

\* The scenario of C9: a fresh driver, clear() then setBacklight(10,20,30),
\* no failure so far
ScenarioBacklight == LCDCommand("RGB_CMD", <<10, 20, 30>>)
Scenario ==
    /\ acceptedLog = <<ClearCmd, ScenarioBacklight>>
    /\ _errorCount = 0

ScenarioFirstTick ==
    (Update(TRUE) /\ Scenario /\ sentLog = <<>> /\ _state = "READY") =>
        /\ tx' = <<[cmd |-> ClearCmd, bytes |-> <<254, 1>>, ok |-> TRUE]>>
        /\ _state' = "PROCESSING"

ScenarioEarlyTick ==
    (UpdateStep /\ Scenario /\ sentLog = <<ClearCmd>> /\ _state = "PROCESSING"
        /\ Diff(now, sendTime) < _cmdTime) =>
        /\ ~ret'
        /\ tx' = <<>>

\* C9 as stated: the first tick sends (254, 1) and enters PROCESSING, a tick
\* before the settle time reports not-ready and sends nothing, and a tick
\* once the settle time has elapsed sends (0x7C, 0x2B, r, g, b) and leaves
\* the queue empty.
C9_ScenarioAsStated ==
    [][ /\ ScenarioFirstTick
        /\ ScenarioEarlyTick
        /\ (Update(TRUE) /\ Scenario /\ sentLog = <<ClearCmd>>
              /\ Diff(now, sendTime) >= _cmdTime) =>
              /\ tx' # <<>>
              /\ tx'[1].bytes = <<124, 43, 10, 20, 30>>
              /\ QueueNow' = <<>>
      ]_vars

\* C9 amended: as stated for the first two ticks; the first tick once the
\* settle time has elapsed only takes the state to READY (it reports ready
\* and sends nothing), and the tick after it sends (0x7C, 0x2B, r, g, b) and
\* leaves the queue empty.
C9_ScenarioTwoTicks ==
    [][ /\ ScenarioFirstTick
        /\ ScenarioEarlyTick
        /\ (Update(TRUE) /\ Scenario /\ sentLog = <<ClearCmd>> /\ _state = "PROCESSING"
              /\ Diff(now, sendTime) >= _cmdTime) =>
              /\ tx' = <<>>
              /\ ret'
              /\ _state' = "READY"
              /\ QueueNow' = <<ScenarioBacklight>>
        /\ (Update(TRUE) /\ Scenario /\ sentLog = <<ClearCmd>> /\ _state = "READY") =>
              /\ tx' = <<[cmd |-> ScenarioBacklight,
                          bytes |-> <<124, 43, 10, 20, 30>>, ok |-> TRUE]>>
              /\ QueueNow' = <<>>
      ]_vars

\* C9 witness: the scenario has run to its end.
C9_Witness ==
    /\ Scenario
    /\ sentLog = <<ClearCmd, ScenarioBacklight>>
    /\ call = "update"
    /\ tx # <<>>
    /\ tx[1].bytes = <<124, 43, 10, 20, 30>>
    /\ QueueNow = <<>>

\* C2 (capacity): counting from an empty queue with no dequeue in between,
\* each of the first QUEUE_SIZE - 1 queueCommand calls returns true, stores
\* the command at tail and advances tail; every call after them returns
\* false, stores nothing and adds one to the error counter.
C2_Capacity ==
    [][(Write(65) /\ streak >= 0) =>
            /\ streak <= QUEUE_SIZE - 1
            /\ IF streak < QUEUE_SIZE - 1
               THEN /\ ret'
                    /\ _cmdQueue' = [_cmdQueue EXCEPT
                                        ![_queueTail] = LCDCommand("WRITE_CHAR", <<65>>)]
                    /\ _queueTail' = (_queueTail + 1) % QUEUE_SIZE
                    /\ _queueHead' = _queueHead
                    /\ _errorCount' = _errorCount
               ELSE /\ ~ret'
                    /\ _cmdQueue' = _cmdQueue
                    /\ QueueNow' \in {QueueNow, <<>>}
                    /\ _errorCount' = (_errorCount + 1) % ByteMod
      ]_vars

\* C2 witness: after QUEUE_SIZE - 1 accepted calls from an empty queue a
\* further call was rejected and counted.
C2_Witness ==
    /\ streak = QUEUE_SIZE - 1
    /\ call = "write"
    /\ ~ret
    /\ _errorCount = 1
    /\ Len(QueueNow) = QUEUE_SIZE - 1

\* A failure: a bus transaction that failed, or an enqueue that was rejected
FailureStep ==
    \/ UpdateStep /\ tx' # <<>> /\ ~tx'[1].ok
    \/ Write(65) /\ ~ret'

QueueNotReset ==
    /\ QueueNow' = QueueNow
    /\ _queueHead' = _queueHead
    /\ _queueTail' = _queueTail

Escalated ==
    /\ _state' = "ERROR"
    /\ _queueHead' = _queueTail'
    /\ _needsFullRefresh'

C7_GateFromSendTime ==
    [][(UpdateStep /\ sendTime # NoTime) =>
            IF Diff(now, sendTime) < _cmdTime
            THEN _state' = "PROCESSING" /\ tx' = <<>>
            ELSE _state = "PROCESSING" => _state' # "PROCESSING"
      ]_vars

\* C7 amended: the gate is measured from _lastActionTime.  As long as no
\* enqueue was rejected since the send, that is the send time, and the
\* statement holds as given, whatever enqueues were accepted.  A rejected
\* enqueue re-stamps _lastActionTime: if the failure is absorbed, update()
\* leaves PROCESSING only once _cmdTime has elapsed since the rejection; if
\* it escalates, the state is ERROR and update() does not make it READY.
\* No update() in the window performs a bus transaction.
C7_GateFromLastAction ==
    [][(UpdateStep /\ sendTime # NoTime) =>
            /\ ~restamped =>
                  /\ _lastActionTime = sendTime
                  /\ IF Diff(now, sendTime) < _cmdTime
                     THEN _state = "PROCESSING" /\ _state' = "PROCESSING"
                          /\ tx' = <<>> /\ ~ret'
                     ELSE _state = "PROCESSING" => (_state' = "READY" /\ tx' = <<>>)
            /\ (restamped /\ _state = "PROCESSING") =>
                  /\ tx' = <<>>
                  /\ IF Diff(now, _lastActionTime) < _cmdTime
                     THEN _state' = "PROCESSING"
                     ELSE _state' = "READY"
            /\ (restamped /\ _state = "ERROR") =>
                  /\ tx' = <<>>
                  /\ _state' # "READY"
      ]_vars

\* C7 witness: an update() at or after sendTime + _cmdTime left the state
\* PROCESSING, because a rejected enqueue had re-stamped _lastActionTime.
C7_Witness ==
    /\ call = "update"
    /\ preState = "PROCESSING"
    /\ _state = "PROCESSING"
    /\ sendTime # NoTime
    /\ restamped
    /\ Diff(now, sendTime) >= _cmdTime

\* C10 as stated (escape rule): a character write of 254 puts two bytes on
\* the wire, both 254; a character write of any other value puts that one
\* byte.
C10_OnlySpecialEscaped ==
    (tx # <<>> /\ tx[1].cmd.type = "WRITE_CHAR") =>
        LET v == tx[1].cmd.data[1]
        IN  tx[1].bytes = IF v = SPECIAL_COMMAND THEN <<v, v>> ELSE <<v>>

\* C10 amended: a character write of 254 or of 0x7C (the setting prefix)
\* puts two bytes on the wire, both equal to the value; a character write
\* of any other value puts that one byte.
C10_BothPrefixesEscaped ==
    (tx # <<>> /\ tx[1].cmd.type = "WRITE_CHAR") =>
        LET v == tx[1].cmd.data[1]
        IN  tx[1].bytes = IF v = SPECIAL_COMMAND \/ v = SETTING_COMMAND
                          THEN <<v, v>> ELSE <<v>>

\* C10 witness: the character 254 was sent as two bytes.
C10_Witness ==
    /\ tx # <<>>
    /\ tx[1].cmd = LCDCommand("WRITE_CHAR", <<SPECIAL_COMMAND>>)
    /\ tx[1].bytes = <<SPECIAL_COMMAND, SPECIAL_COMMAND>>
    /\ tx[1].ok

\* C11 (encoder reference): the bytes written in the bus transaction of
\* sendCommand are (v, v) for a character v that is 254 or 0x7C and (v) for
\* any other character, (254, p) for a special command, (0x7C, p) for a
\* setting command and (0x7C, 0x2B, r, g, b) for a backlight command; a
\* command of any other kind is reported as a failure.
C11_EncoderReference ==
    tx # <<>> =>
        LET cmd == tx[1].cmd
            d == cmd.data
        IN  CASE cmd.type = "WRITE_CHAR" ->
                    tx[1].bytes = IF d[1] \in {254, 124} THEN <<d[1], d[1]>> ELSE <<d[1]>>
              [] cmd.type = "SPECIAL_CMD" -> tx[1].bytes = <<254, d[1]>>
              [] cmd.type = "SETTING_CMD" -> tx[1].bytes = <<124, d[1]>>
              [] cmd.type = "RGB_CMD" -> tx[1].bytes = <<124, 43, d[1], d[2], d[3]>>
              [] OTHER -> ~tx[1].ok /\ ~ret

\* C11 witness: a setting command was sent as the setting prefix and its
\* payload.
C11_Witness ==
    /\ call = "sendCommand"
    /\ tx[1].cmd = LCDCommand("SETTING_CMD", <<43>>)
    /\ tx[1].bytes = <<124, 43>>
    /\ tx[1].ok

\* The caller's last writes were not all accepted
RejectedEnqueue == call = "write" /\ ~ret

C14_NoDispatchInError ==
    (call = "update" /\ preState = "ERROR") => (~ret /\ tx = <<>>)

\* C14 witness: an update() in ERROR, before the recovery time, with a
\* command waiting in the queue: it sent nothing and returned false.
C14_Witness ==
    /\ call = "update"
    /\ preState = "ERROR"
    /\ _state = "ERROR"
    /\ QueueNow # <<>>
    /\ tx = <<>>
    /\ ~ret

EnqueueNames == {"write", "clear", "home", "setCursor", "setBacklight"}

\* A step that is one of the enqueue calls
EnqueueStep == enqLeft' # enqLeft /\ call' \in EnqueueNames

\* C15 (bounded bus use): an update() performs at most one bus transaction,
\* and one only if it was entered in READY with a non-empty queue; no
\* enqueue call performs a bus transaction.
C15_BoundedBusUse ==
    [][ /\ UpdateStep =>
            /\ Len(tx') <= 1
            /\ (tx' # <<>>) => (_state = "READY" /\ _queueHead # _queueTail)
        /\ EnqueueStep => tx' = <<>>
      ]_vars

\* C15 witness: an update() entered in READY performed its one transaction,
\* which failed, and commands are still queued.
C15_Witness ==
    /\ call = "update"
    /\ preState = "READY"
    /\ Len(tx) = 1
    /\ ~tx[1].ok
    /\ Len(QueueNow) = 2

IsPrefix(a, b) == Len(a) <= Len(b) /\ a = SubSeq(b, 1, Len(a))

\* A step after which some queued command is no longer queued
Removal ==
    \/ _queueHead' # _queueHead
    \/ ~IsPrefix(QueueNow, QueueNow')

\* C16 (no cancellation): a queued command leaves the queue only by the
\* successful bus transaction of that command, which advances head by one
\* and leaves tail alone, or by a reset of the whole queue (escalation,
\* reinitialize, recovery); a failed bus transaction that does not escalate
\* leaves head, tail and the slots unchanged.
C16_NoCancellation ==
    [][ /\ Removal =>
            \/ /\ UpdateStep
               /\ QueueNow # <<>>
               /\ Len(tx') = 1
               /\ tx'[1].cmd = Head(QueueNow)
               /\ tx'[1].ok
               /\ QueueNow' = Tail(QueueNow)
               /\ _queueHead' = (_queueHead + 1) % QUEUE_SIZE
               /\ _queueTail' = _queueTail
            \/ /\ _state' = "ERROR"
               /\ _errorCount' > _SerLCD0_ErrorThreshold
               /\ _errorCount' # _errorCount
               /\ _queueHead' = 0
               /\ _queueTail' = 0
            \/ /\ call' = "reinitialize" \/ RecoveryTick
               /\ _queueHead' = 0
               /\ QueueNow' = ReinitSequence
        /\ AbsorbedBusFailure =>
            /\ _queueHead' = _queueHead
            /\ _queueTail' = _queueTail
            /\ _cmdQueue' = _cmdQueue
            /\ _errorCount' <= _SerLCD0_ErrorThreshold
      ]_vars

\* C16 witness: after one command was sent, the transaction of the next
\* failed without escalation: head is still 1 and both remaining commands
\* are queued.
C16_Witness ==
    /\ call = "update"
    /\ tx # <<>>
    /\ ~tx[1].ok
    /\ _state = "READY"
    /\ _queueHead = 1
    /\ QueueNow = SubSeq(acceptedLog, 2, Len(acceptedLog))
    /\ QueueNow # <<>>
    /\ tx[1].cmd = Head(QueueNow)

\* Under SpecWrap: the milliseconds that passed since construction, counted
\* without modulus, the clock value at construction, and the milliseconds
\* that passed between construction and the writing of _lastActionTime
SinceStart == WrapElapsed - timeLeft
StartTime == (now - SinceStart + ClockMod) % ClockMod
StampSinceStart == (_lastActionTime - StartTime + ClockMod) % ClockMod
\* The true time between the writing of _lastActionTime and now
TrueElapsed == SinceStart - StampSinceStart

\* C17 (clock wraparound): an update() in PROCESSING makes the state READY
\* exactly if the true time elapsed since _lastActionTime was written is at
\* least _cmdTime, and an update() in ERROR starts the recovery exactly if
\* it is at least _errorResetTime, whether or not the clock wrapped in
\* between, for every elapsed time below 2^ClockBits.
C17_GateOnTrueElapsed ==
    [][UpdateStep =>
            /\ TrueElapsed \in 0..(ClockMod - 1)
            /\ TrueElapsed = Diff(now, _lastActionTime)
            /\ (_state = "PROCESSING") =>
                    ((_state' = "READY") <=> (TrueElapsed >= _cmdTime))
            /\ (_state = "ERROR") =>
                    ((_state' = "PROCESSING" /\ _errorCount' = 0)
                        <=> (TrueElapsed >= _errorResetTime))
      ]_vars

\* C17 witness: the settle gate opened at an update() before which the
\* clock had wrapped since the time stamp, exactly _cmdTime after it.
C17_Witness ==
    /\ call = "update"
    /\ preState = "PROCESSING"
    /\ _state = "READY"
    /\ now < _lastActionTime
    /\ TrueElapsed = _cmdTime

\* Commands accepted since the last queue reset and not sent since
Pending == Len(acceptedLog) - Len(sentLog)

\* C18 (queue index invariant): head and tail are in 0..QUEUE_SIZE-1, no
\* command is pending exactly if head = tail, at most QUEUE_SIZE - 1
\* commands are pending, and getQueueCount() is the number of commands
\* accepted and not yet removed.
C18_QueueIndexInvariant ==
    /\ _queueHead \in 0..(QUEUE_SIZE - 1)
    /\ _queueTail \in 0..(QUEUE_SIZE - 1)
    /\ (Pending = 0) <=> (_queueHead = _queueTail)
    /\ Pending <= QUEUE_SIZE - 1
    /\ getQueueCount(Obj) = Pending
    /\ Pending = IF _queueTail >= _queueHead
                 THEN _queueTail - _queueHead
                 ELSE QUEUE_SIZE - (_queueHead - _queueTail)

\* C18 witness: the queue is full with tail wrapped around behind head.
C18_Witness ==
    /\ _queueTail < _queueHead
    /\ Pending = QUEUE_SIZE - 1
    /\ getQueueCount(Obj) = QUEUE_SIZE - 1

\* C19 (refresh flag): _needsFullRefresh is true after construction, is
\* true after every reinitialize(), every recovery tick and every
\* escalation, and a step takes it from true to false only if it is
\* clearRefreshFlag(), which changes nothing else of the object; no update()
\* and no enqueue clears it.
C19_RefreshFlag ==
    [][ /\ (call = "constructor") => _needsFullRefresh
        /\ (call' = "reinitialize" \/ RecoveryTick) => _needsFullRefresh'
        /\ ( /\ \/ call' = "update" /\ tx' # <<>> /\ ~tx'[1].ok
                \/ call' = "write" /\ ~ret'
             /\ _errorCount' # _errorCount
             /\ _errorCount' > _SerLCD0_ErrorThreshold ) =>
               (_state' = "ERROR" /\ _needsFullRefresh')
        /\ (_needsFullRefresh /\ ~_needsFullRefresh') =>
               /\ call' = "clearRefreshFlag"
               /\ UNCHANGED <<_state, _queueHead, _queueTail, _cmdQueue,
                              _lastActionTime, _errorCount>>
        /\ (call' \in {"update", "write"} /\ _needsFullRefresh) => _needsFullRefresh'
      ]_vars

\* C19 witness: after the caller had cleared the flag, an update() whose
\* transaction failed without escalation left the flag false.
C19_Witness ==
    /\ ~_needsFullRefresh
    /\ call = "update"
    /\ tx # <<>>
    /\ ~tx[1].ok
    /\ _state = "READY"

\* A bus transaction that failed, or an enqueue call that was rejected
FailedCall ==
    \/ UpdateStep /\ tx' # <<>> /\ ~tx'[1].ok
    \/ EnqueueStep /\ ~ret'

\* C20 (the error counter is cumulative): a failure adds one to the counter
\* (in uint8_t), reinitialize() and the recovery tick set it to 0, and every
\* other step leaves it as it is, a successful bus transaction and an
\* accepted enqueue in particular; a failure that takes the counter above
\* the threshold escalates, whatever was sent since the earlier failures.
C20_CounterCumulative ==
    [][ /\ _errorCount' =
              IF FailedCall THEN (_errorCount + 1) % ByteMod
              ELSE IF call' = "reinitialize" \/ RecoveryTick THEN 0
              ELSE _errorCount
        /\ (UpdateStep /\ tx' # <<>> /\ tx'[1].ok) => _errorCount' = _errorCount
        /\ (EnqueueStep /\ ret') => _errorCount' = _errorCount
        /\ (FailedCall /\ _errorCount' > _SerLCD0_ErrorThreshold) => _state' = "ERROR"
      ]_vars

\* C20 witness: the second failure escalated although a command had been
\* sent successfully since construction and the settle time after that
\* send had passed.
C20_Witness ==
    /\ call = "update"
    /\ preState = "READY"
    /\ _state = "ERROR"
    /\ _errorCount = 2
    /\ _SerLCD0_ErrorThreshold = 1
    /\ sendTime # NoTime
    /\ Diff(_lastActionTime, sendTime) >= _cmdTime

\* C21 (eight-bit counter, strict comparison): a failure takes the counter
\* from c to (c + 1) modulo 256.  With the threshold 255 no failure takes a
\* state other than ERROR to ERROR, and the failure at 255 takes the
\* counter to 0; with a threshold T in 0..254 the failure that takes the
\* counter to T + 1 makes the state ERROR, and no failure before it does.
C21_EightBitCounter ==
    [][FailureStep =>
            /\ _errorCount \in 0..255
            /\ _errorCount' = IF _errorCount = 255 THEN 0 ELSE _errorCount + 1
            /\ IF _SerLCD0_ErrorThreshold = 255
               THEN (_state # "ERROR") => (_state' = _state)
               ELSE /\ (_errorCount' = _SerLCD0_ErrorThreshold + 1) => _state' = "ERROR"
                    /\ (_state # "ERROR" /\ _errorCount' <= _SerLCD0_ErrorThreshold) =>
                            _state' # "ERROR"
      ]_vars

\* C21 witness: with the threshold 255 the 256th bus failure wrapped the
\* counter to 0 and the state is still READY, the command still queued.
C21_Witness ==
    /\ _SerLCD0_ErrorThreshold = 255
    /\ call = "update"
    /\ tx # <<>>
    /\ ~tx[1].ok
    /\ _errorCount = 0
    /\ _state = "READY"
    /\ Len(QueueNow) = 1

====
